---------------------------- MODULE Spec2Model ----------------------------
(***************************************************************************)
(* A model of the SDO image-map adapters (sunpy/map/sources/sdo.py) and of *)
(* the NOAA solar-cycle time-series adapters                               *)
(* (sunpy/timeseries/sources/noaa.py).                                     *)
(*                                                                         *)
(* A behaviour is one use of one adapter: a class-level call               *)
(* (is_datasource_for, _parse_file) or a construction, followed by calls   *)
(* of the methods of the object that was built.                            *)
(*                                                                         *)
(* Text is modelled character by character: a Python str is a sequence of  *)
(* one-character strings, so that startswith, lower, split and the         *)
(* tokenising of a data line are computed, not assumed.                    *)
(***************************************************************************)
EXTENDS Integers, Sequences, FiniteSets, TLC

VARIABLES
    obj,        \* class of the object the behaviour has built, or "none"
    op,         \* the last operation that ran ("start" before any)
    arg,        \* the input of the last operation
    ret,        \* the value the last operation returned (a Python value)
    exc,        \* the exception the last operation raised, or "none"
    meta,       \* map: self.meta; time series: the returned MetaDict
    nickname,   \* map: self._nickname
    data,       \* time series: the returned table
    units       \* time series: the returned unit mapping

vars == <<obj, op, arg, ret, exc, meta, nickname, data, units>>

----------------------------------------------------------------------------
(* Python values *)

PyNone == [t |-> "NoneType", v |-> <<>>]

PyBool(b) == [t |-> "bool", v |-> IF b THEN <<"True">> ELSE <<"False">>]

PyStr(s) == [t |-> "str", v |-> s]

PyList(s) == [t |-> "list", v |-> s]

\* Python truth value of a value
Truthy(x) ==
    CASE x.t = "NoneType" -> FALSE
      [] x.t = "bool" -> x.v = <<"True">>
      [] OTHER -> Len(x.v) > 0

\* dict.get(key, default) on a mapping modelled as a function
Get(d, k, default) == IF k \in DOMAIN d THEN d[k] ELSE default

\* d[key] = value
SetItem(d, k, val) ==
    [x \in (DOMAIN d) \cup {k} |-> IF x = k THEN val ELSE d[x]]

----------------------------------------------------------------------------
(* Python str methods *)

UpperCase ==
    <<"A","B","C","D","E","F","G","H","I","J","K","L","M",
      "N","O","P","Q","R","S","T","U","V","W","X","Y","Z">>

LowerCase ==
    <<"a","b","c","d","e","f","g","h","i","j","k","l","m",
      "n","o","p","q","r","s","t","u","v","w","x","y","z">>

LowerChar(c) ==
    IF \E i \in DOMAIN UpperCase : UpperCase[i] = c
    THEN LowerCase[CHOOSE i \in DOMAIN UpperCase : UpperCase[i] = c]
    ELSE c

\* str.lower()
Lower(s) == [i \in 1..Len(s) |-> LowerChar(s[i])]

\* str.startswith(prefix)
StartsWith(s, p) == Len(s) >= Len(p) /\ SubSeq(s, 1, Len(p)) = p

\* index of the first occurrence of character c in s, 0 when there is none
Find(s, c) ==
    IF \E i \in 1..Len(s) : s[i] = c
    THEN CHOOSE i \in 1..Len(s) : s[i] = c /\ \A j \in 1..(i-1) : s[j] # c
    ELSE 0

\* str.split(sep)[0] for a one-character separator: the text before the
\* first occurrence of sep, the whole text when sep does not occur
SplitFirst(s, sep) ==
    IF Find(s, sep) = 0 THEN s ELSE SubSeq(s, 1, Find(s, sep) - 1)

----------------------------------------------------------------------------
(* sdo.py: inputs *)

HeaderKeys == {"instrume", "detector", "content", "telescop"}

InstrumeValues ==
    { <<"A","I","A","_","2">>, <<"A","I","A">>, <<"H","M","I","_","1">>,
      <<"a","i","a">>, <<"S","A","I","A">>, <<>> }

DetectorValues ==
    { <<"A","I","A">>, <<"H","M","I">>, <<"X">>, <<>> }

ContentValues ==
    { <<"D","O","P","P","L","E","R","G","R","A","M">>,
      <<"C","O","N","T"," ","I","N","T">>,
      <<" ","M","A","G">>,
      <<"C","O","N","T","\t","I","N","T">>,
      <<>> }

TelescopValues == { <<"S","D","O","/","A","I","A">>, <<"S","D","O">> }

ValuesOf(k) ==
    CASE k = "instrume" -> InstrumeValues
      [] k = "detector" -> DetectorValues
      [] k = "content" -> ContentValues
      [] k = "telescop" -> TelescopValues

\* the header mappings: any subset of the keys, each with one of its values
Headers ==
    UNION { { h \in [K -> UNION {ValuesOf(k) : k \in HeaderKeys}] :
                \A k \in K : h[k] \in ValuesOf(k) } : K \in SUBSET HeaderKeys }

----------------------------------------------------------------------------
(* sdo.py: the adapters *)

AIA == <<"A","I","A">>

HMI == <<"H","M","I">>

\* GenericMap.detector: the 'detector' entry of the metadata
detector(m) == Get(m, "detector", <<>>)

\* AIAMap.is_datasource_for with the field compared without regard to case
AIAMap_is_datasource_for_result_nocase(header) ==
    PyBool(StartsWith(Lower(Get(header, "instrume", <<>>)), Lower(AIA)))

\* AIAMap.is_datasource_for
AIAMap_is_datasource_for_result(header) ==
    PyBool(StartsWith(Get(header, "instrume", <<>>), AIA))

\* HMIMap.is_datasource_for
HMIMap_is_datasource_for_result(header) ==
    PyBool(StartsWith(Get(header, "instrume", <<>>), HMI))

\* self.meta['detector'] = "AIA", whatever the header holds
AIAMap_fill_detector_always(m) == SetItem(m, "detector", AIA)

\* self.meta['detector'] = self.meta.get('detector', "AIA")
AIAMap_fill_detector(m) == SetItem(m, "detector", Get(m, "detector", AIA))

\* self.meta['detector'] = self.meta.get('detector', "HMI")
HMIMap_fill_detector(m) == SetItem(m, "detector", Get(m, "detector", HMI))

\* HMIMap.measurement
HMIMap_measurement(m) == Lower(SplitFirst(Get(m, "content", <<>>), " "))

\* AIAMap.observatory, HMIMap.observatory
Map_observatory(m) == SplitFirst(Get(m, "telescop", <<>>), "/")

----------------------------------------------------------------------------
(* noaa.py: the columns, and the lines the input files are made of *)

NOAAIndices_fields ==
    << "yyyy", "mm", "sunspot SWO", "sunspot RI", "sunspot ratio",
       "sunspot SWO smooth", "sunspot RI smooth", "radio flux",
       "radio flux smooth", "geomagnetic ap", "geomagnetic smooth" >>

NOAAPredict_fields ==
    << "yyyy", "mm", "sunspot", "sunspot low", "sunspot high",
       "radio flux", "radio flux low", "radio flux high" >>

\* the longest file, in lines
MaxLines == 4

RECURSIVE Join(_)
\* the tokens with one space between them
Join(toks) ==
    IF toks = <<>> THEN <<>>
    ELSE IF Len(toks) = 1 THEN Head(toks)
    ELSE Head(toks) \o <<" ">> \o Join(Tail(toks))

TextLine(toks) == Join(toks) \o <<"\n">>

Y2000 == <<"2","0","0","0">>

\* n numeric fields
Numbers(n) == [i \in 1..n |-> <<"1",".","5">>]

\* a data line of n fields: year, month and n - 2 numbers, the third field
\* replaced by `third` when that is not empty
DataLine(yyyy, mm, n, third) ==
    TextLine(<<yyyy, mm>> \o
             [i \in 1..(n - 2) |->
                 IF i = 1 /\ third # <<>> THEN third ELSE Numbers(n - 2)[i]])

ColonLine == TextLine(<< <<":","C">>, <<"x">> >>)

HashLine == TextLine(<< <<"#","Y","R">>, <<"M","O">> >>)

\* the lines a file of n-field rows is made of
LinesOf(n) ==
    { ColonLine, HashLine,
      \* complete rows: January and February 2000
      DataLine(Y2000, <<"0","1">>, n, <<>>),
      DataLine(Y2000, <<"0","2">>, n, <<>>),
      \* a row that lacks its last field
      DataLine(Y2000, <<"0","3">>, n - 1, <<>>),
      \* a row with a field that is an NA value
      DataLine(Y2000, <<"0","4">>, n, <<"N","A">>),
      \* a row with a field that is no number
      DataLine(Y2000, <<"0","5">>, n, <<"x">>),
      \* a row whose year is no number
      DataLine(<<"y","y","y","y">>, <<"0","6">>, n, <<>>),
      \* a complete row followed by a comment
      Join(<<Join(<<Y2000, <<"0","7">>>> \o Numbers(n - 2)), <<"#","c","\n">>>>) }

\* every line a file may hold
Lines ==
    LinesOf(Len(NOAAIndices_fields)) \cup LinesOf(Len(NOAAPredict_fields))

----------------------------------------------------------------------------
(* noaa.py: text files *)

\* str.startswith((":", "#")); the empty string readline returns at the end
\* of the file starts with neither
IsHeaderLine(line) == Len(line) > 0 /\ line[1] \in {":", "#"}

RECURSIVE Concat(_)
\* the concatenation of a sequence of texts
Concat(ss) == IF ss = <<>> THEN <<>> ELSE Head(ss) \o Concat(Tail(ss))

\* number of leading lines of the file that the header loop consumes
RECURSIVE HeaderCount(_)
HeaderCount(lines) ==
    IF lines # <<>> /\ IsHeaderLine(Head(lines))
    THEN 1 + HeaderCount(Tail(lines))
    ELSE 0

\* the header loop: line = fp.readline(); while line.startswith((":", "#")):
\* header += line; line = fp.readline().  Returns the accumulated characters
\* and the number of lines the loop has read from fp: the header lines and
\* the line that ended the loop (none when the file ended first).
ReadHeader(lines) ==
    LET h == HeaderCount(lines)
    IN  [ text |-> Concat(SubSeq(lines, 1, h)),
          pos  |-> IF h < Len(lines) THEN h + 1 ELSE h ]

----------------------------------------------------------------------------
(* pandas.read_csv(delim_whitespace=True, names=fields, comment='#') *)

Whitespace == {" ", "\t", "\n", "\r"}

\* the values read_csv reads as missing (the defaults that hold no '#')
NAValues ==
    { <<"N","A">>, <<"N","/","A">>, <<"n","/","a">>, <<"<","N","A",">">>,
      <<"N","U","L","L">>, <<"n","u","l","l">>, <<"N","a","N">>,
      <<"-","N","a","N">>, <<"n","a","n">>, <<"-","n","a","n">>, <<>> }

Digits == {"0","1","2","3","4","5","6","7","8","9"}

\* a token read_csv converts to a number: an optional sign, digits, at most
\* one decimal point
IsNumber(tok) ==
    LET body == IF tok # <<>> /\ tok[1] \in {"+", "-"} THEN Tail(tok) ELSE tok
    IN  /\ \E i \in 1..Len(body) : body[i] \in Digits
        /\ \A i \in 1..Len(body) : body[i] \in Digits \cup {"."}
        /\ Cardinality({i \in 1..Len(body) : body[i] = "."}) <= 1

\* the tokeniser of read_csv on one line, from character i on: `cur` is the
\* field being read and `done` the fields read.  delim_whitespace=True: a run
\* of whitespace ends a field; comment='#': the rest of the line from the
\* first '#' is not parsed.
RECURSIVE Tokenize(_, _, _, _)
Tokenize(line, i, cur, done) ==
    LET closed == IF cur = <<>> THEN done ELSE Append(done, cur)
    IN  IF i > Len(line) \/ line[i] = "#" THEN closed
        ELSE IF line[i] \in Whitespace THEN Tokenize(line, i + 1, <<>>, closed)
        ELSE Tokenize(line, i + 1, Append(cur, line[i]), done)

\* the fields of a line
Tokens(line) == Tokenize(line, 1, <<>>, <<>>)

NaN == [t |-> "nan", v |-> <<>>]

IsNaN(cell) == cell.t = "nan"

\* the fields of each line a file may hold, tokenised once
Fields == [line \in Lines |-> Tokens(line)]

\* the raw value of field j of a tokenised line: missing when the line is
\* short or the field is one of the NA values
RawField(toks, j) ==
    IF j > Len(toks) \/ toks[j] \in NAValues THEN NaN
    ELSE [t |-> "str", v |-> toks[j]]

\* the table read_csv returns for the lines from line `first` on: a row per
\* line that is neither blank nor comment only, a cell per name.  A column
\* is numeric when each of its fields present is a number;
\* dtype={'yyyy': str, 'mm': str} keeps the columns strcols text.
\* Each row keeps the number of the file line it was read from.
read_csv(lines, first, names, strcols) ==
    LET fields == [i \in 1..Len(lines) |-> Fields[lines[i]]]
        rowlines == SelectSeq([i \in 1..Len(lines) |-> i],
                              LAMBDA i : i >= first /\ fields[i] # <<>>)
        numeric == { j \in 1..Len(names) :
                       /\ names[j] \notin strcols
                       /\ \A k \in 1..Len(rowlines) :
                             LET f == RawField(fields[rowlines[k]], j)
                             IN  IsNaN(f) \/ IsNumber(f.v) }
        Cell(i, j) ==
            LET f == RawField(fields[i], j)
            IN  IF ~IsNaN(f) /\ j \in numeric
                THEN [t |-> "float", v |-> f.v] ELSE f
        col == [n \in {names[j] : j \in 1..Len(names)} |->
                  CHOOSE j \in 1..Len(names) : names[j] = n]
    IN  [ columns |-> names,
          rows |-> [k \in 1..Len(rowlines) |->
                      [ lineno |-> rowlines[k],
                        index  |-> [t |-> "int", v |-> <<k - 1>>],
                        cells  |-> [n \in DOMAIN col |->
                                      Cell(rowlines[k], col[n])] ]] ]

\* DataFrame.dropna(how='all'): only the rows that hold no value are dropped
dropna_all(df) ==
    [df EXCEPT !.rows =
        SelectSeq(df.rows,
                  LAMBDA r : \E n \in DOMAIN r.cells : r.cells[n].t # "nan")]

\* DataFrame.dropna(how='any')
dropna(df) ==
    [df EXCEPT !.rows =
        SelectSeq(df.rows,
                  LAMBDA r : \A n \in DOMAIN r.cells : ~IsNaN(r.cells[n]))]

DigitValue(c) ==
    CASE c = "0" -> 0 [] c = "1" -> 1 [] c = "2" -> 2 [] c = "3" -> 3
      [] c = "4" -> 4 [] c = "5" -> 5 [] c = "6" -> 6 [] c = "7" -> 7
      [] c = "8" -> 8 [] c = "9" -> 9

\* strptime(s, '%Y%m'): four digits of year, then a month 1..12 written with
\* one or two digits, and nothing else
StrptimeOk(s) ==
    /\ Len(s) \in {5, 6}
    /\ \A i \in 1..Len(s) : s[i] \in Digits
    /\ LET m == IF Len(s) = 5 THEN DigitValue(s[5])
                ELSE 10 * DigitValue(s[5]) + DigitValue(s[6])
       IN  m \in 1..12

\* the month the text names, counted in months from year 0
StrptimeValue(s) ==
    LET y == 1000 * DigitValue(s[1]) + 100 * DigitValue(s[2])
               + 10 * DigitValue(s[3]) + DigitValue(s[4])
        m == IF Len(s) = 5 THEN DigitValue(s[5])
             ELSE 10 * DigitValue(s[5]) + DigitValue(s[6])
    IN  12 * y + (m - 1)

\* [x + y for x, y in zip(data['yyyy'], data['mm'])]
YearMonthTexts(df) ==
    [k \in 1..Len(df.rows) |->
        df.rows[k].cells["yyyy"].v \o df.rows[k].cells["mm"].v]

\* Time.strptime(list, '%Y%m'): TypeError for a list that holds no string
\* (the empty list), ValueError when a text does not match the format
StrptimeError(texts) ==
    IF texts = <<>> THEN "TypeError"
    ELSE IF \E k \in 1..Len(texts) : ~StrptimeOk(texts[k]) THEN "ValueError"
    ELSE "none"

\* data['time'] = timeindex.isot.astype('datetime64')
add_time(df) ==
    [ columns |-> Append(df.columns, "time"),
      rows |-> [k \in 1..Len(df.rows) |->
                  [df.rows[k] EXCEPT !.cells =
                      SetItem(@, "time",
                              [t |-> "datetime64",
                               v |-> <<StrptimeValue(YearMonthTexts(df)[k])>>])]] ]

\* DataFrame.drop(name, 1): the table without the column
drop(df, name) ==
    [ columns |-> SelectSeq(df.columns, LAMBDA c : c # name),
      rows |-> [k \in 1..Len(df.rows) |->
                  [df.rows[k] EXCEPT !.cells =
                      [n \in (DOMAIN @) \ {name} |-> @[n]]]] ]

\* DataFrame.set_index(name): the column becomes the index of the rows
set_index(df, name) ==
    drop([df EXCEPT !.rows =
            [k \in 1..Len(df.rows) |->
                [df.rows[k] EXCEPT !.index = df.rows[k].cells[name]]]],
         name)

\* the statements both parsers run on the table read_csv returned
finish_table(df) == drop(drop(set_index(add_time(df), "time"), "mm"), "yyyy")

----------------------------------------------------------------------------
(* noaa.py: NOAAIndicesTimeSeries *)

NOAAIndices_source == <<"n","o","a","a","i","n","d","i","c","e","s">>

\* the unit mapping with the key peek uses for the smoothed Ap index
NOAAIndices_units_ap_smooth ==
    << <<"sunspot SWO", "dimensionless">>,
       <<"sunspot RI", "dimensionless">>,
       <<"sunspot ratio", "dimensionless">>,
       <<"sunspot SWO smooth", "dimensionless">>,
       <<"sunspot RI smooth", "dimensionless">>,
       <<"radio flux", "W / m2">>,
       <<"radio flux smooth", "W / m2">>,
       <<"geomagnetic ap", "dimensionless">>,
       <<"geomagnetic ap smooth", "dimensionless">> >>

NOAAIndices_units ==
    << <<"sunspot SWO", "dimensionless">>,
       <<"sunspot RI", "dimensionless">>,
       <<"sunspot ratio", "dimensionless">>,
       <<"sunspot SWO smooth", "dimensionless">>,
       <<"sunspot RI smooth", "dimensionless">>,
       <<"radio flux", "W / m2">>,
       <<"radio flux smooth", "W / m2">>,
       <<"geomagnetic ap", "dimensionless">>,
       <<"geomagnetic smooth", "dimensionless">> >>

\* header = []; header += line: the list grows by the characters of the line
NOAAIndices_header(lines) == PyList(ReadHeader(lines).text)

\* read_csv(fp, ...): fp is read from where the header loop left it
NOAAIndices_read(lines) ==
    read_csv(lines, ReadHeader(lines).pos + 1, NOAAIndices_fields,
             {"yyyy", "mm"})

\* the columns peek plots for a plot type, in the order it looks them up
NOAAIndices_peek_columns(type) ==
    (IF type = "sunspot SWO"
     THEN <<"sunspot SWO", "sunspot SWO smooth">> ELSE <<>>)
    \o (IF type = "sunspot RI"
        THEN <<"sunspot RI", "sunspot RI smooth">> ELSE <<>>)
    \o (IF type = "sunspot compare"
        THEN <<"sunspot RI", "sunspot SWO">> ELSE <<>>)
    \o (IF type = "radio"
        THEN <<"radio flux", "radio flux smooth">> ELSE <<>>)
    \o (IF type = "geo"
        THEN <<"geomagnetic ap", "geomagnetic ap smooth">> ELSE <<>>)

----------------------------------------------------------------------------
(* noaa.py: NOAAPredictIndicesTimeSeries *)

NOAAPredict_source ==
    <<"n","o","a","a","p","r","e","d","i","c","t","i","n","d","i","c","e","s">>

NOAAPredict_units ==
    << <<"sunspot", "dimensionless">>,
       <<"sunspot low", "dimensionless">>,
       <<"sunspot high", "dimensionless">>,
       <<"radio flux", "W / m2">>,
       <<"radio flux low", "W / m2">>,
       <<"radio flux high", "W / m2">> >>

\* header = ''; header += line
NOAAPredict_header(lines) == PyStr(ReadHeader(lines).text)

\* skiprows=2
skiprows == 2

\* read_csv(fp, ..., skiprows=2): fp read from where the header loop left it
NOAAPredict_read_from_fp(lines) ==
    read_csv(lines, ReadHeader(lines).pos + skiprows + 1, NOAAPredict_fields,
             {"yyyy", "mm"})

\* read_csv(filepath, ..., skiprows=2): the file is opened again and read
\* from its first line, without its first skiprows lines
NOAAPredict_read(lines) ==
    read_csv(lines, skiprows + 1, NOAAPredict_fields, {"yyyy", "mm"})

NOAAPredict_peek_columns == <<"sunspot", "sunspot low", "sunspot high">>

----------------------------------------------------------------------------
(* noaa.py: inputs *)

FilesOf(n) == UNION { [1..k -> LinesOf(n)] : k \in 0..MaxLines }

IndicesFiles == FilesOf(Len(NOAAIndices_fields))

PredictFiles == FilesOf(Len(NOAAPredict_fields))

Tags ==
    { <<>>,
      <<"N","O","A","A","I","n","d","i","c","e","s">>,
      <<"n","o","a","a","i","n","d","i","c","e","s">>,
      <<"N","O","A","A","I","n","d","i","c","e","s","-","v","2">>,
      <<"n","o","a","a","i","n","d","i","c","e">>,
      <<"x","n","o","a","a","i","n","d","i","c","e","s">>,
      <<"N","O","A","A","P","r","e","d","i","c","t","I","n","d","i","c","e","s">>,
      <<"n","o","a","a","p","r","e","d","i","c","t","i","n","d","i","c","e","s">>,
      <<"N","O","A","A","P","R","E","D","I","C","T","I","N","D","I","C","E","S","2">>,
      <<"n","o","a","a","p","r","e","d","i","c","t">>,
      <<"n","o","a","a">> }

\* the keyword arguments: no source, source=None, or source=<a tag>
Kwargs ==
    { <<>> } \cup { [k \in {"source"} |-> x] :
                      x \in {PyNone} \cup {PyStr(tag) : tag \in Tags} }

PeekTypes ==
    {"sunspot SWO", "sunspot RI", "sunspot compare", "radio", "geo", "other"}

----------------------------------------------------------------------------
(* noaa.py: is_datasource_for of both classes *)

\* is_datasource_for without the lower(): the tag compared as given
NOAA_is_datasource_for_result_exact(kwargs, source) ==
    IF Truthy(Get(kwargs, "source", PyStr(<<>>)))
    THEN PyBool(StartsWith(Get(kwargs, "source", PyStr(<<>>)).v, source))
    ELSE PyNone

\* if kwargs.get('source', ''):
\*     return kwargs.get('source', '').lower().startswith(cls._source)
\* and None when the function ends without a return
NOAA_is_datasource_for_result(kwargs, source) ==
    IF Truthy(Get(kwargs, "source", PyStr(<<>>)))
    THEN PyBool(StartsWith(Lower(Get(kwargs, "source", PyStr(<<>>)).v), source))
    ELSE PyNone

\* self.data[name] for each name in turn: KeyError at the first that is no
\* column of the table
LookupError(df, names) ==
    IF \E k \in 1..Len(names) :
          names[k] \notin {df.columns[j] : j \in 1..Len(df.columns)}
    THEN "KeyError" ELSE "none"

Init ==
    /\ obj = "none"
    /\ op = "start"
    /\ arg = <<>>
    /\ ret = PyNone
    /\ exc = "none"
    /\ meta = <<>>
    /\ nickname = <<>>
    /\ data = <<>>
    /\ units = <<>>

AIAMap_is_datasource_for ==
    /\ op = "start"
    /\ \E header \in Headers :
        /\ arg' = header
        /\ ret' = AIAMap_is_datasource_for_result(header)
    /\ op' = "AIAMap.is_datasource_for"
    /\ UNCHANGED <<obj, exc, meta, nickname, data, units>>

HMIMap_is_datasource_for ==
    /\ op = "start"
    /\ \E header \in Headers :
        /\ arg' = header
        /\ ret' = HMIMap_is_datasource_for_result(header)
    /\ op' = "HMIMap.is_datasource_for"
    /\ UNCHANGED <<obj, exc, meta, nickname, data, units>>

AIAMap_init ==
    /\ op = "start"
    /\ \E header \in Headers :
        /\ arg' = header
        /\ meta' = AIAMap_fill_detector(header)
    /\ nickname' = detector(meta')
    /\ obj' = "AIAMap"
    /\ op' = "AIAMap.__init__"
    /\ UNCHANGED <<ret, exc, data, units>>

HMIMap_init ==
    /\ op = "start"
    /\ \E header \in Headers :
        /\ arg' = header
        /\ meta' = HMIMap_fill_detector(header)
    /\ nickname' = detector(meta')
    /\ obj' = "HMIMap"
    /\ op' = "HMIMap.__init__"
    /\ UNCHANGED <<ret, exc, data, units>>

measurement ==
    /\ obj = "HMIMap"
    /\ op = "HMIMap.__init__"
    /\ ret' = PyStr(HMIMap_measurement(meta))
    /\ op' = "HMIMap.measurement"
    /\ UNCHANGED <<obj, arg, exc, meta, nickname, data, units>>

observatory ==
    /\ obj \in {"AIAMap", "HMIMap"}
    /\ op \in {"AIAMap.__init__", "HMIMap.__init__"}
    /\ ret' = PyStr(Map_observatory(meta))
    /\ op' = "observatory"
    /\ UNCHANGED <<obj, arg, exc, meta, nickname, data, units>>

NOAAIndices_is_datasource_for ==
    /\ op = "start"
    /\ \E kwargs \in Kwargs :
        /\ arg' = kwargs
        /\ ret' = NOAA_is_datasource_for_result(kwargs, NOAAIndices_source)
    /\ op' = "NOAAIndicesTimeSeries.is_datasource_for"
    /\ UNCHANGED <<obj, exc, meta, nickname, data, units>>

NOAAPredict_is_datasource_for ==
    /\ op = "start"
    /\ \E kwargs \in Kwargs :
        /\ arg' = kwargs
        /\ ret' = NOAA_is_datasource_for_result(kwargs, NOAAPredict_source)
    /\ op' = "NOAAPredictIndicesTimeSeries.is_datasource_for"
    /\ UNCHANGED <<obj, exc, meta, nickname, data, units>>

\* NOAAIndicesTimeSeries._parse_file; on success the time series is built
\* from what it returned
NOAAIndices_parse_file ==
    /\ op = "start"
    /\ \E lines \in IndicesFiles :
        \E df \in {dropna(NOAAIndices_read(lines))} :
        LET err == StrptimeError(YearMonthTexts(df))
        IN  /\ arg' = lines
            /\ exc' = err
            /\ IF err = "none"
               THEN /\ data' = finish_table(df)
                    /\ meta' = [k \in {"comments"} |-> NOAAIndices_header(lines)]
                    /\ units' = NOAAIndices_units
                    /\ obj' = "NOAAIndicesTimeSeries"
               ELSE UNCHANGED <<data, meta, units, obj>>
    /\ op' = "NOAAIndicesTimeSeries._parse_file"
    /\ UNCHANGED <<ret, nickname>>

\* NOAAPredictIndicesTimeSeries._parse_file
NOAAPredict_parse_file ==
    /\ op = "start"
    /\ \E lines \in PredictFiles :
        \E df \in {dropna(NOAAPredict_read(lines))} :
        LET err == StrptimeError(YearMonthTexts(df))
        IN  /\ arg' = lines
            /\ exc' = err
            /\ IF err = "none"
               THEN /\ data' = finish_table(df)
                    /\ meta' = [k \in {"comments"} |-> NOAAPredict_header(lines)]
                    /\ units' = NOAAPredict_units
                    /\ obj' = "NOAAPredictIndicesTimeSeries"
               ELSE UNCHANGED <<data, meta, units, obj>>
    /\ op' = "NOAAPredictIndicesTimeSeries._parse_file"
    /\ UNCHANGED <<ret, nickname>>

\* NOAAIndicesTimeSeries.peek(type), on the time series built from a table
\* _parse_file returned; such a table has rows, which is what
\* _validate_data_for_plotting asks for
NOAAIndices_peek ==
    /\ obj = "NOAAIndicesTimeSeries"
    /\ op = "NOAAIndicesTimeSeries._parse_file"
    /\ \E type \in PeekTypes :
        /\ arg' = type
        /\ exc' = LookupError(data, NOAAIndices_peek_columns(type))
        /\ ret' = IF exc' = "none"
                  THEN [t |-> "Figure", v |-> NOAAIndices_peek_columns(type)]
                  ELSE PyNone
    /\ op' = "NOAAIndicesTimeSeries.peek"
    /\ UNCHANGED <<obj, meta, nickname, data, units>>

\* NOAAPredictIndicesTimeSeries.peek()
NOAAPredict_peek ==
    /\ obj = "NOAAPredictIndicesTimeSeries"
    /\ op = "NOAAPredictIndicesTimeSeries._parse_file"
    /\ arg' = <<>>
    /\ exc' = LookupError(data, NOAAPredict_peek_columns)
    /\ ret' = IF exc' = "none"
              THEN [t |-> "Figure", v |-> NOAAPredict_peek_columns]
              ELSE PyNone
    /\ op' = "NOAAPredictIndicesTimeSeries.peek"
    /\ UNCHANGED <<obj, meta, nickname, data, units>>

Next ==
    \/ NOAAIndices_is_datasource_for
    \/ NOAAPredict_is_datasource_for
    \/ NOAAIndices_parse_file
    \/ NOAAPredict_parse_file
    \/ NOAAIndices_peek
    \/ NOAAPredict_peek
    \/ AIAMap_is_datasource_for
    \/ HMIMap_is_datasource_for
    \/ AIAMap_init
    \/ HMIMap_init
    \/ measurement
    \/ observatory

Spec == Init /\ [][Next]_vars

----------------------------------------------------------------------------
(* Properties *)

IndicesParsed == op = "NOAAIndicesTimeSeries._parse_file" /\ exc = "none"

PredictParsed == op = "NOAAPredictIndicesTimeSeries._parse_file" /\ exc = "none"

\* the number of lines of the header block: the leading lines that start
\* with ':' or '#'
HeaderBlock(lines) ==
    CHOOSE h \in 0..Len(lines) :
        /\ \A i \in 1..h : lines[i] # <<>> /\ lines[i][1] \in {":", "#"}
        /\ h < Len(lines) =>
              ~(lines[h + 1] # <<>> /\ lines[h + 1][1] \in {":", "#"})

\* a data line whose n fields are all present and numeric
ValidLine(line, n) ==
    /\ Len(Fields[line]) = n
    /\ \A j \in 1..n : IsNumber(Fields[line][j])

\* a line that has n fields before any comment, none of them an NA value
FullLine(line, n) ==
    /\ Len(Fields[line]) >= n
    /\ \A j \in 1..n : Fields[line][j] \notin NAValues

\* the file lines the rows of the table were read from
RowLinenos == {data.rows[k].lineno : k \in 1..Len(data.rows)}

NoMissingValue ==
    \A k \in 1..Len(data.rows) :
        \A n \in DOMAIN data.rows[k].cells : data.rows[k].cells[n].t # "nan"

ColumnSet == {data.columns[j] : j \in 1..Len(data.columns)}

UnitKeys == {units[j][1] : j \in 1..Len(units)}

UnitOf(name) == units[CHOOSE j \in 1..Len(units) : units[j][1] = name][2]

RadioFluxColumns ==
    {"radio flux", "radio flux smooth", "radio flux low", "radio flux high"}

\* the first whitespace-delimited token of a text, empty when it has none
FirstWord(s) ==
    LET black == {i \in 1..Len(s) : s[i] \notin Whitespace}
    IN  IF black = {} THEN <<>>
        ELSE LET a == CHOOSE i \in black : \A j \in black : i <= j
                 white == {i \in a..Len(s) : s[i] \in Whitespace}
                 b == IF white = {} THEN Len(s)
                      ELSE (CHOOSE i \in white : \A j \in white : i <= j) - 1
             IN  SubSeq(s, a, b)

\* the month a four-digit year and a two-digit month name, in months
MonthNumber(yyyy, mm) ==
    12 * (1000 * DigitValue(yyyy[1]) + 100 * DigitValue(yyyy[2])
            + 10 * DigitValue(yyyy[3]) + DigitValue(yyyy[4]))
       + (10 * DigitValue(mm[1]) + DigitValue(mm[2])) - 1

\* the tag, lower-cased, starts with the source name
LowerPrefix(tag, source) ==
    /\ Len(tag) >= Len(source)
    /\ \A i \in 1..Len(source) : LowerChar(tag[i]) = source[i]

\* C1: the table NOAAIndicesTimeSeries._parse_file returns has exactly one
\* row for every line after the header block whose 11 fields are all present
\* and numeric, the first line after the header block included, and no
\* other row.
C1_RowPerValidLine ==
    IndicesParsed =>
        RowLinenos = { i \in (HeaderBlock(arg) + 1)..Len(arg) :
                         ValidLine(arg[i], Len(NOAAIndices_fields)) }

\* C2 as stated: NOAAPredictIndicesTimeSeries._parse_file skips exactly the
\* two lines that follow the header block, parses no header line as a row,
\* and the first row it retains is the third line after the header block.
C2_SkipsTwoAfterHeader ==
    PredictParsed =>
        LET h == HeaderBlock(arg)
        IN  /\ \A i \in RowLinenos : i > h + 2
            /\ (h + 3 <= Len(arg)
                  /\ ValidLine(arg[h + 3], Len(NOAAPredict_fields)))
                 => data.rows[1].lineno = h + 3

\* C2 amended: NOAAPredictIndicesTimeSeries._parse_file reads the file again
\* from its first line and skips exactly the first two lines of the file,
\* header or data; of the lines after them it ignores those that start with
\* '#' and parses every other one as a row (a ':' line too), so the rows it
\* retains are, in file order, the lines from the third on that have all 8
\* fields with no missing value (no line of the files holds more than 8).
C2_SkipsFirstTwoLines ==
    PredictParsed =>
        /\ RowLinenos = { i \in 3..Len(arg) :
                            FullLine(arg[i], Len(NOAAPredict_fields)) }
        /\ \A i \in RowLinenos : arg[i][1] # "#"
        /\ data.rows[1].lineno =
              CHOOSE i \in RowLinenos : \A j \in RowLinenos : i <= j

C2_Witness ==
    /\ PredictParsed
    /\ HeaderBlock(arg) = 1
    /\ data.rows[1].lineno = 3
    /\ Len(data.rows) = 2

\* C3: in each of the five plot modes every column peek looks up is a column
\* of the parsed table, so peek plots its two series and raises no error.
C3_PeekColumnsExist ==
    (op = "NOAAIndicesTimeSeries.peek" /\ arg # "other") =>
        /\ exc = "none"
        /\ ret.t = "Figure"
        /\ Len(ret.v) = 2

\* C4: is_datasource_for of either NOAA class returns True exactly when the
\* tag, lower-cased, starts with the source name of the class, returns a
\* falsy value without raising when there is no tag or an empty one, and no
\* tag is accepted by both classes.
C4_SourcePrefix ==
    /\ \A c \in { <<"NOAAIndicesTimeSeries.is_datasource_for",
                    NOAAIndices_source, NOAAPredict_source>>,
                  <<"NOAAPredictIndicesTimeSeries.is_datasource_for",
                    NOAAPredict_source, NOAAIndices_source>> } :
        op = c[1] =>
            IF "source" \in DOMAIN arg /\ arg["source"].t = "str"
                 /\ arg["source"].v # <<>>
            THEN /\ ret = PyBool(LowerPrefix(arg["source"].v, c[2]))
                 /\ ret = PyBool(TRUE) =>
                       NOAA_is_datasource_for_result(arg, c[3]) = PyBool(FALSE)
            ELSE /\ exc = "none"
                 /\ ret # PyBool(TRUE)
                 /\ ~Truthy(ret)

C4_Witness ==
    /\ op = "NOAAIndicesTimeSeries.is_datasource_for"
    /\ "source" \in DOMAIN arg
    /\ arg["source"] =
          PyStr(<<"N","O","A","A","I","n","d","i","c","e","s","-","v","2">>)
    /\ ret = PyBool(TRUE)

\* C5: AIAMap.is_datasource_for returns True exactly when the header has an
\* 'instrume' field that starts, case-sensitively, with "AIA", and
\* HMIMap.is_datasource_for exactly when it starts with "HMI"; a header
\* without the field matches neither, and no header matches both.
C5_InstrumentPrefix ==
    /\ \A c \in { <<"AIAMap.is_datasource_for", "A", "I", "A">>,
                  <<"HMIMap.is_datasource_for", "H", "M", "I">> } :
        op = c[1] =>
            ret = PyBool(/\ "instrume" \in DOMAIN arg
                         /\ Len(arg["instrume"]) >= 3
                         /\ arg["instrume"][1] = c[2]
                         /\ arg["instrume"][2] = c[3]
                         /\ arg["instrume"][3] = c[4])
    /\ (op = "AIAMap.is_datasource_for" /\ ret = PyBool(TRUE))
          => HMIMap_is_datasource_for_result(arg) = PyBool(FALSE)
    /\ (op = "HMIMap.is_datasource_for" /\ ret = PyBool(TRUE))
          => AIAMap_is_datasource_for_result(arg) = PyBool(FALSE)

C5_Witness ==
    /\ op = "AIAMap.is_datasource_for"
    /\ "instrume" \in DOMAIN arg
    /\ arg["instrume"] = <<"A","I","A","_","2">>
    /\ ret = PyBool(TRUE)

C7_DetectorDefault ==
    \A c \in { <<"AIAMap", AIA>>, <<"HMIMap", HMI>> } :
        obj = c[1] =>
            LET header == arg
            IN  /\ DOMAIN meta = DOMAIN header \cup {"detector"}
                /\ \A k \in DOMAIN header : meta[k] = header[k]
                /\ "detector" \notin DOMAIN header => meta["detector"] = c[2]
                /\ nickname = meta["detector"]

C7_Witness ==
    /\ op = "HMIMap.__init__"
    /\ "detector" \notin DOMAIN arg
    /\ nickname = HMI

\* C8: HMIMap.measurement is the first whitespace-delimited token of the
\* 'content' field, lower-cased, whatever whitespace surrounds the tokens,
\* and the empty string when the field is absent.
C8_FirstWordOfContent ==
    op = "HMIMap.measurement" =>
        /\ exc = "none"
        /\ ret = PyStr(Lower(FirstWord(IF "content" \in DOMAIN meta
                                       THEN meta["content"] ELSE <<>>)))

\* C9 as stated: for both parsers the timestamps of the returned rows are
\* strictly ascending whatever the order of the data lines, and no returned
\* row has a missing value.
C9_StrictlyAscending ==
    obj \in {"NOAAIndicesTimeSeries", "NOAAPredictIndicesTimeSeries"} =>
        /\ \A k \in 1..(Len(data.rows) - 1) :
              data.rows[k].index.v[1] < data.rows[k + 1].index.v[1]
        /\ NoMissingValue

\* C9 amended: for both parsers the returned rows are in the order of the
\* data lines they were read from, each with the month of its own line as
\* timestamp (the parse neither sorts nor removes repeated months), so the
\* timestamps are strictly ascending exactly when the months of the retained
\* lines are in the file; no returned row has a missing value.
C9_FileOrder ==
    (IndicesParsed \/ PredictParsed) =>
        /\ \A k \in 1..(Len(data.rows) - 1) :
              data.rows[k].lineno < data.rows[k + 1].lineno
        /\ \A k \in 1..Len(data.rows) :
              LET toks == Fields[arg[data.rows[k].lineno]]
              IN  data.rows[k].index =
                     [t |-> "datetime64", v |-> <<MonthNumber(toks[1], toks[2])>>]
        /\ NoMissingValue

C9_Witness ==
    /\ PredictParsed
    /\ Len(data.rows) = 2
    /\ data.rows[1].index.v[1] > data.rows[2].index.v[1]

\* C10: for both parsers the 'comments' entry of the returned metadata is
\* one string, the concatenation in file order of the lines of the header
\* block and nothing else (the empty string when there is no header line),
\* the same value from both parsers for the same header block.
C10_CommentsIsHeaderText ==
    (IndicesParsed \/ PredictParsed) =>
        meta["comments"] = PyStr(Concat(SubSeq(arg, 1, HeaderBlock(arg))))

=============================================================================
